---- MODULE Spec2Model ----
(***************************************************************************)
(* Boids simulator (src/app/app.py) and sweep page (src/app/sweeps.py).    *)
(*                                                                         *)
(* Five specifications share this module:                                  *)
(*   SpecDecode : decode_boids_telemetry applied to one telemetry frame    *)
(*   SpecPhase  : getShoalPhase applied to one (polarization, rotation)    *)
(*   SpecEps    : calculate_eps applied to one population size n           *)
(*   SpecApp    : the app.py script: button callbacks and script reruns    *)
(*   SpecSweep  : the sweeps.py script: Run Sweep callback and reruns      *)
(* Python floats are modelled as exact rationals [num, den].               *)
(***************************************************************************)
EXTENDS Integers, Sequences, FiniteSets, TLC

VARIABLES
    \* ---- decode_boids_telemetry as a function under test (SpecDecode)
    telemetry,          \* the frame handed to decode_boids_telemetry
    decoded,            \* its outcome: a returned dict or a raised exception
    \* ---- getShoalPhase as a function under test (SpecPhase)
    phase_in,           \* [polarization, rotationOrder], in hundredths
    phase_out,          \* "polar" / "milling" / "swarm", or "none" before the call
    \* ---- calculate_eps as a function under test (SpecEps)
    eps_n,              \* the population size n handed to calculate_eps
    eps_out,            \* its outcome, or EpsPending before the call
    \* ---- app.py session state and script outputs (SpecApp)
    boids_command,      \* st.session_state["boids_command"]
    prev_stepCount,     \* st.session_state["prev_stepCount"]  (NoneV when unset)
    prev_tMs,           \* st.session_state["prev_tMs"]
    boids_positions_px, \* st.session_state["boids_positions_px"]
    boids_positions_norm,
    run,                \* what the latest script run did (command passed, sps, ...)
    rerun_pending,      \* a button callback ran and its script rerun has not yet
    pressed,            \* the button whose callback triggered the pending rerun
    last_frame,         \* history: (stepCount, tMs) of the latest processed frame
    \* ---- sweeps.py session state (SpecSweep)
    sweep_state,        \* st.session_state.sweep_state
    sweep_configs,      \* st.session_state["sweep_configs"]
    sweep_results,      \* st.session_state["sweep_results"]
    widgets,            \* the keyed widgets read by run_sweep
    component_value,    \* value the sweep component returns when rendered
    sweep_pending,      \* run_sweep ran and its script rerun has not yet
    last_render,        \* history: what the latest sweeps.py script run rendered
    sweep_params,       \* history: the params dicts run_sweep built, in order
    sweep_inputs        \* history: the widget values the latest run_sweep read

decodeVars == <<telemetry, decoded>>
phaseVars  == <<phase_in, phase_out>>
epsVars    == <<eps_n, eps_out>>
appVars    == <<boids_command, prev_stepCount, prev_tMs, boids_positions_px,
                boids_positions_norm, run, rerun_pending, pressed, last_frame>>
sweepVars  == <<sweep_state, sweep_configs, sweep_results, widgets,
                component_value, sweep_pending, last_render, sweep_params,
                sweep_inputs>>
vars == <<decodeVars, phaseVars, epsVars, appVars, sweepVars>>

-----------------------------------------------------------------------------
(* Bounds of the model *)

\* largest number of boids a sender packs into one payload
MaxBoids == 2
\* largest stepCount / tMs a frame of the pipeline carries
MaxTick == 2
\* largest granularity chosen on the slider (the slider itself allows 100)
MaxGranularity == 5
\* largest magnitude of a population size handed to calculate_eps
MaxPopulation == 30

-----------------------------------------------------------------------------
(* Python values *)

\* Python None, and a missing dict key read with .get()
NoneV == [t |-> "none", v |-> 0]
IntV(i) == [t |-> "int", v |-> i]
\* a float holding the integral value i (e.g. 2.0): not an instance of int
FloatV(i) == [t |-> "float", v |-> i]
\* a value int() cannot convert (e.g. a non-numeric string)
BadV == [t |-> "bad", v |-> 0]

Max(a, b) == IF a >= b THEN a ELSE b

RECURSIVE GCD(_, _)
GCD(a, b) == IF b = 0 THEN a ELSE GCD(b, a % b)

\* an exact rational in lowest terms, standing for a Python float; den = 0
\* records a division by zero
Rat(n, d) ==
    LET g == GCD(IF n < 0 THEN -n ELSE n, d)
    IN  IF n = 0 THEN [num |-> 0, den |-> IF d = 0 THEN 0 ELSE 1]
        ELSE [num |-> n \div g, den |-> d \div g]

RatMul(a, b) == Rat(a.num * b.num, a.den * b.den)
RatDivInt(a, k) == Rat(a.num, a.den * k)
RatMulInt(a, k) == Rat(a.num * k, a.den)

-----------------------------------------------------------------------------
(* Position codec: app.py lines 55-123 *)

\* A base64 string is a sequence of characters, each given by its index in the
\* base64 alphabet (0..63); 64 stands for the padding character "=".
BASE64_PAD == 64
U16_MAX == 65535

\* base64.b64decode(data_b64) in its default, non-validating mode: four
\* characters give three bytes, padding ends the data, and leftover characters
\* raise binascii.Error.  Returns [ok, bytes].
RECURSIVE a2b_base64(_, _, _, _, _, _)
a2b_base64(s, i, quad_pos, leftchar, pads, out) ==
    IF i > Len(s)
    THEN [ok |-> (quad_pos = 0), bytes |-> out]
    ELSE LET c == s[i] IN
         IF c = BASE64_PAD
         THEN IF quad_pos >= 2 /\ quad_pos + pads + 1 >= 4
              THEN [ok |-> TRUE, bytes |-> out]
              ELSE a2b_base64(s, i + 1, quad_pos, leftchar,
                              IF quad_pos >= 2 THEN pads + 1 ELSE pads, out)
         ELSE CASE quad_pos = 0 -> a2b_base64(s, i + 1, 1, c, 0, out)
                [] quad_pos = 1 -> a2b_base64(s, i + 1, 2, c % 16, 0,
                                     Append(out, leftchar * 4 + c \div 16))
                [] quad_pos = 2 -> a2b_base64(s, i + 1, 3, c % 4, 0,
                                     Append(out, leftchar * 16 + c \div 4))
                [] quad_pos = 3 -> a2b_base64(s, i + 1, 0, 0, 0,
                                     Append(out, leftchar * 64 + c))

b64decode(s) == a2b_base64(s, 1, 0, 0, 0, <<>>)

\* np.frombuffer(raw, dtype="<u2"): little-endian byte pairs; a buffer of odd
\* length raises ValueError.  Returns [ok, u16].
frombuffer_u2(raw) ==
    IF Len(raw) % 2 # 0
    THEN [ok |-> FALSE, u16 |-> <<>>]
    ELSE [ok |-> TRUE,
          u16 |-> [k \in 1..(Len(raw) \div 2) |-> raw[2 * k - 1] + 256 * raw[2 * k]]]

\* int(x) as applied to telemetry.get(key, 1)
IntConvertible(x) == x.t \in {"none", "int", "float"}
IntOf(x) == IF x.t = "none" THEN 1 ELSE x.v

NoPositions == [t |-> "none", v |-> <<>>]
Positions(seq) == [t |-> "array", v |-> seq]

\* mutant of odd_count: the trailing value is dropped without an error
odd_count_ignored(size) == FALSE

\* line 65: u16.size % 2 != 0
odd_count(size) == size % 2 # 0

\* _decode_u16xy_base64_to_positions_px: [err, px]; err = "" when it returns.
\* px[k] = <<x, y>> in pixels, each an exact rational.
decode_u16xy_base64_to_positions_px(data_b64, w, h) ==
    LET raw == b64decode(data_b64)
        buf == frombuffer_u2(raw.bytes)
        u16 == buf.u16
        denom_x == Max(1, w)
        denom_y == Max(1, h)
    IN  IF ~raw.ok THEN [err |-> "binascii.Error", px |-> <<>>]
        ELSE IF ~buf.ok THEN [err |-> "ValueError: buffer size", px |-> <<>>]
        ELSE IF odd_count(Len(u16))
        THEN [err |-> "ValueError: u16xy payload must have even count", px |-> <<>>]
        ELSE [err |-> "",
              px |-> [k \in 1..(Len(u16) \div 2) |->
                        << Rat(u16[2 * k - 1] * denom_x, U16_MAX),
                           Rat(u16[2 * k] * denom_y, U16_MAX) >>]]

NoWarning == [present |-> FALSE, reported_n |-> 0, decoded_n |-> 0,
              decoded_bytes |-> 0, expected_bytes |-> 0]

Returned(fmt, px, norm, warning) ==
    [kind |-> "return", format |-> fmt, positions_px |-> px,
     positions_norm |-> norm, warning |-> warning, error |-> ""]
Raised(err) ==
    [kind |-> "raise", format |-> "", positions_px |-> NoPositions,
     positions_norm |-> NoPositions, warning |-> NoWarning, error |-> err]
Pending ==
    [kind |-> "pending", format |-> "", positions_px |-> NoPositions,
     positions_norm |-> NoPositions, warning |-> NoWarning, error |-> ""]

\* line 91: fmt != "u16xy"
unsupported_format(fmt) == fmt # "u16xy"

\* mutant of data_unusable: the empty string is not screened out
data_unusable_no_empty(data) == data.t # "str"

\* line 95: not isinstance(data_b64, str) or not data_b64
data_unusable(data) == data.t # "str" \/ data.s = <<>>

\* mutant of is_checked_n: a reported n of 0 is not checked
is_checked_n_positive(n) == n.t = "int" /\ n.v > 0

\* line 105: isinstance(n_reported, int) and n_reported >= 0
is_checked_n(n) == n.t = "int" /\ n.v >= 0

\* mutant of integrity_mismatch: only a payload shorter than n is caught
integrity_mismatch_short_only(n_reported, decoded_n) ==
    n_reported.t = "int" /\ n_reported.v >= 0 /\ decoded_n < n_reported.v

\* line 105: the integrity check fails
integrity_mismatch(n_reported, decoded_n) ==
    is_checked_n(n_reported) /\ decoded_n # n_reported.v

\* decode_boids_telemetry(telemetry)
decode_boids_telemetry(f) ==
    LET fmt == f.format
        w == IntOf(f.w)
        h == IntOf(f.h)
        dec == decode_u16xy_base64_to_positions_px(f.data.s, w, h)
        px == dec.px
        n_reported == f.n
    IN  IF unsupported_format(fmt)
        THEN Returned(fmt, NoPositions, NoPositions, NoWarning)
        ELSE IF data_unusable(f.data)
        THEN Returned(fmt, NoPositions, NoPositions, NoWarning)
        ELSE IF ~IntConvertible(f.w) \/ ~IntConvertible(f.h)
        THEN Raised("int() conversion")
        ELSE IF dec.err # "" THEN Raised(dec.err)
        ELSE IF integrity_mismatch(n_reported, Len(px))
        THEN Returned(fmt, NoPositions, NoPositions,
                      [present |-> TRUE, reported_n |-> n_reported.v,
                       decoded_n |-> Len(px),
                       decoded_bytes |-> Len(b64decode(f.data.s).bytes),
                       expected_bytes |-> 4 * n_reported.v])
        ELSE Returned(fmt, Positions(px),
                      Positions([k \in 1..Len(px) |->
                                   << RatDivInt(px[k][1], Max(1, w)),
                                      RatDivInt(px[k][2], Max(1, h)) >>]),
                      NoWarning)

-----------------------------------------------------------------------------
(* Telemetry frames as the canvas component sends them *)

\* Sequences over S of length at most n
SeqsUpTo(S, n) == UNION {[1..k -> S] : k \in 0..n}

\* quantized (x, y) positions a sender packs
SenderPoints == {<<0, 65535>>, <<258, 1>>}

\* the Uint16Array [x0,y0,x1,y1,...] as little-endian bytes
pack_u16xy(points) ==
    [j \in 1..(4 * Len(points)) |->
        LET u == points[(j + 3) \div 4][IF (j - 1) % 4 < 2 THEN 1 ELSE 2]
        IN  IF j % 2 = 1 THEN u % 256 ELSE u \div 256]

\* base64 of a byte sequence, with "=" padding
RECURSIVE b64encode(_)
b64encode(bytes) ==
    IF Len(bytes) = 0 THEN <<>>
    ELSE IF Len(bytes) = 1
    THEN << bytes[1] \div 4, (bytes[1] % 4) * 16, BASE64_PAD, BASE64_PAD >>
    ELSE IF Len(bytes) = 2
    THEN << bytes[1] \div 4, (bytes[1] % 4) * 16 + bytes[2] \div 16,
            (bytes[2] % 16) * 4, BASE64_PAD >>
    ELSE << bytes[1] \div 4, (bytes[1] % 4) * 16 + bytes[2] \div 16,
            (bytes[2] % 16) * 4 + bytes[3] \div 64, bytes[3] % 64 >>
         \o b64encode(SubSeq(bytes, 4, Len(bytes)))

\* the data strings a frame can carry: the encoding of up to MaxBoids
\* positions, whole or cut short in transport
DataStrings ==
    UNION { LET full == b64encode(pack_u16xy(pts))
            IN  {SubSeq(full, 1, k) : k \in 0..Len(full)}
          : pts \in SeqsUpTo(SenderPoints, MaxBoids) }

\* telemetry.get("data"): missing, not a string, or a string
DataValues ==
    {[t |-> "none", s |-> <<>>], [t |-> "nonstr", s |-> <<>>]}
        \cup {[t |-> "str", s |-> d] : d \in DataStrings}

\* telemetry.get("n"): missing, a float, or an int from -1 to MaxBoids + 1
NValues == {NoneV, FloatV(1)} \cup {IntV(i) : i \in (-1)..(MaxBoids + 1)}

Frame(fmt, data, w, h, n, stepCount, tMs, Op, Or) ==
    [format |-> fmt, data |-> data, w |-> w, h |-> h, n |-> n,
     stepCount |-> stepCount, tMs |-> tMs,
     polarization |-> Op, rotationOrder |-> Or]

\* the frames decode_boids_telemetry is applied to
DecodeFrames ==
    { Frame(fmt, data, w, h, n, 0, 0, 0, 0) :
        fmt \in {"None", "u16xy", "raw"}, data \in DataValues,
        w \in {NoneV, IntV(0), IntV(4), BadV}, h \in {NoneV, IntV(3), BadV},
        n \in NValues }

NoFrame == Frame("None", [t |-> "none", s |-> <<>>], NoneV, NoneV, NoneV, 0, 0, 0, 0)

-----------------------------------------------------------------------------
(* Order parameters and cluster radius: app.py lines 125-162 *)

MIN_SAMPLES == 3

\* calculate_eps(n, _x, _y) = sqrt(1*1*MIN_SAMPLES / (pi*n)).  The float division
\* raises ZeroDivisionError for n = 0; np.sqrt of a negative number is nan.
\* A value is kept as eps^2 * pi, the rational MIN_SAMPLES / n.
calculate_eps(n) ==
    IF n = 0 THEN [kind |-> "ZeroDivisionError", sq_pi |-> Rat(0, 1)]
    ELSE IF n < 0 THEN [kind |-> "nan", sq_pi |-> Rat(0, 1)]
    ELSE [kind |-> "value", sq_pi |-> Rat(MIN_SAMPLES, n)]

\* before calculate_eps is called
EpsPending == [kind |-> "pending", sq_pi |-> Rat(0, 1)]

\* the population sizes a frame can report as n, the degenerate ones included
PopulationSizes == (0 - MaxPopulation)..MaxPopulation

\* mutant of getShoalPhase: the thresholds themselves count as inside
getShoalPhase_inclusive(Op, Or) ==
    IF Op >= 65 /\ Or <= 35 THEN "polar"
    ELSE IF Op <= 35 /\ Or >= 65 THEN "milling"
    ELSE "swarm"

\* getShoalPhase(telemetry); Op and Or in hundredths (0.65 is 65)
getShoalPhase(Op, Or) ==
    IF Op > 65 /\ Or < 35 THEN "polar"
    ELSE IF Op < 35 /\ Or > 65 THEN "milling"
    ELSE "swarm"

\* order-parameter values tried, in hundredths: both thresholds and their neighbours
PhaseValues == {0, 20, 34, 35, 36, 50, 64, 65, 66, 70, 100}

-----------------------------------------------------------------------------
(* app.py script: lines 190-209 (callbacks) and 270-373 (script body) *)

Commands == {"start", "stop", "reload"}

\* _set_command(cmd)
set_command(cmd) == cmd

\* mutant of consume_command: the slot is left as it was
consume_command_keep(command) == command

\* line 279: the slot after the command was handed to render_canvas
consume_command(command) == "None"

NoSps == [kind |-> "none", v |-> Rat(0, 1)]

\* lines 295-319: sps_text from the stored previous (stepCount, tMs)
instantaneous_sps(prev_step, prev_tms, f) ==
    IF prev_step.t # "none" /\ prev_tms.t # "none"
    THEN LET d_step == f.stepCount - prev_step.v
             d_tms == f.tMs - prev_tms.v
         IN  IF d_tms > 0 /\ d_step >= 0
             THEN [kind |-> "value", v |-> RatMulInt(Rat(d_step, d_tms), 1000)]
             ELSE [kind |-> "n/a", v |-> Rat(0, 1)]
    ELSE [kind |-> "n/a (warming up)", v |-> Rat(0, 1)]

\* mutant of store_prev: the two fields are stored crosswise
store_prev_swapped(f) == [stepCount |-> IntV(f.tMs), tMs |-> IntV(f.stepCount)]

\* lines 323-324: the previous-frame record after a frame
store_prev(f) == [stepCount |-> IntV(f.stepCount), tMs |-> IntV(f.tMs)]

\* lines 327-336: decode under try/except; what is stored and the warning text
decode_guarded(f) ==
    LET d == decode_boids_telemetry(f)
    IN  IF d.kind = "raise"
        THEN [px |-> NoPositions, norm |-> NoPositions,
              warning_text |-> "Failed to decode telemetry positions"]
        ELSE [px |-> d.positions_px, norm |-> d.positions_norm,
              warning_text |-> IF d.warning.present
                               THEN "Telemetry integrity warning" ELSE "None"]

\* lines 344-352: analyze_clusters runs on non-empty normalized positions;
\* DBSCAN rejects an eps that is not a positive number
cluster_report(norm, eps) ==
    IF norm.t = "array" /\ Len(norm.v) > 0
    THEN IF eps.kind = "value" THEN "clusters" ELSE "raise"
    ELSE "n/a"

\* the frames the canvas component returns to the script, as <<data, n>>: one
\* boid sent whole with n = 1, cut to an odd count of 16-bit values, sent
\* whole with n = 2 (a mismatch), and sent whole with the degenerate n = 0
AppData ==
    LET whole == b64encode(pack_u16xy(<< <<258, 1>> >>))
    IN  { <<[t |-> "str", s |-> whole], 1>>,
          <<[t |-> "str", s |-> SubSeq(whole, 1, 4)], 1>>,
          <<[t |-> "str", s |-> whole], 2>>,
          <<[t |-> "str", s |-> whole], 0>> }

AppFrames ==
    { Frame("u16xy", dn[1], IntV(4), IntV(3), IntV(dn[2]), stepCount, tMs, 70, 20) :
        dn \in AppData, stepCount \in 0..MaxTick, tMs \in 0..MaxTick }

\* render_canvas returns {} until the component has sent a frame
AppInputs ==
    {[present |-> FALSE, f |-> NoFrame]} \cup {[present |-> TRUE, f |-> fr] : fr \in AppFrames}

\* decode_guarded tabulated over the frames of the page (evaluated once)
DecodedFrames == [fr \in AppFrames \cup {NoFrame} |-> decode_guarded(fr)]

NoTick == [stepCount |-> NoneV, tMs |-> NoneV]

NoRun == [command |-> "None", cause |-> "None", ran |-> FALSE, processed |-> FALSE,
          raised |-> "None", tick |-> NoTick, before |-> NoTick, sps |-> NoSps,
          phase |-> "none", warning_text |-> "None", clusters |-> "n/a",
          given |-> NoTick, n |-> NoneV]

\* a button's on_click callback (start / stop / reload); Streamlit reruns the
\* script right after it
Press(cmd) ==
    /\ ~rerun_pending
    /\ boids_command' = set_command(cmd)
    /\ pressed' = cmd
    /\ rerun_pending' = TRUE
    /\ UNCHANGED <<prev_stepCount, prev_tMs, boids_positions_px,
                   boids_positions_norm, run, last_frame>>
    /\ UNCHANGED <<decodeVars, phaseVars, epsVars, sweepVars>>

\* one run of the script body, lines 270-373, with inp the value render_canvas
\* returns; it follows a callback or any other rerun trigger
ScriptRun(inp) ==
    LET command == boids_command
        f == inp.f
        eps == calculate_eps(f.n.v)
        warm == prev_stepCount.t # "none" /\ prev_tMs.t # "none"
        sps == instantaneous_sps(prev_stepCount, prev_tMs, f)
        g == DecodedFrames[f]
        clusters == cluster_report(g.norm, eps)
        base == [NoRun EXCEPT !.command = command, !.cause = pressed, !.ran = TRUE]
        got == [base EXCEPT !.given = [stepCount |-> IntV(f.stepCount),
                                       tMs |-> IntV(f.tMs)],
                            !.n = f.n]
    IN  /\ boids_command' = consume_command(command)
        /\ rerun_pending' = FALSE
        /\ pressed' = "None"
        /\ IF ~inp.present
           THEN /\ run' = base
                /\ UNCHANGED <<prev_stepCount, prev_tMs, boids_positions_px,
                               boids_positions_norm, last_frame>>
           ELSE IF eps.kind = "ZeroDivisionError"
           THEN /\ run' = [got EXCEPT !.raised = "ZeroDivisionError"]
                /\ UNCHANGED <<prev_stepCount, prev_tMs, boids_positions_px,
                               boids_positions_norm, last_frame>>
           ELSE /\ prev_stepCount' = store_prev(f).stepCount
                /\ prev_tMs' = store_prev(f).tMs
                /\ boids_positions_px' = g.px
                /\ boids_positions_norm' = g.norm
                /\ last_frame' = [stepCount |-> IntV(f.stepCount), tMs |-> IntV(f.tMs)]
                /\ run' = [got EXCEPT
                             !.processed = TRUE,
                             !.tick = [stepCount |-> IntV(f.stepCount),
                                       tMs |-> IntV(f.tMs)],
                             !.before = last_frame,
                             !.sps = sps,
                             !.phase = IF warm
                                       THEN getShoalPhase(f.polarization, f.rotationOrder)
                                       ELSE "none",
                             !.warning_text = g.warning_text,
                             !.clusters = clusters,
                             !.raised = IF clusters = "raise"
                                        THEN "DBSCAN eps" ELSE "None"]
        /\ UNCHANGED <<decodeVars, phaseVars, epsVars, sweepVars>>

-----------------------------------------------------------------------------
(* Initial values *)

DecodeIdle == telemetry = NoFrame /\ decoded = Pending
PhaseIdle == phase_in = <<0, 0>> /\ phase_out = "none"
EpsIdle == eps_n = 1 /\ eps_out = EpsPending
\* app.py lines 208-209: the command slot starts as None; nothing else is set
AppInit ==
    /\ boids_command = "None"
    /\ prev_stepCount = NoneV
    /\ prev_tMs = NoneV
    /\ boids_positions_px = NoPositions
    /\ boids_positions_norm = NoPositions
    /\ run = NoRun
    /\ rerun_pending = FALSE
    /\ pressed = "None"
    /\ last_frame = NoTick

-----------------------------------------------------------------------------
(* sweeps.py: configuration builder, lines 19-121 *)

WIDTH == 1000
HEIGHT == 1000
VERBOSE == TRUE

Factors == {"attractive", "alignment", "avoid"}

\* SCALE_ADAPTERS[factor]: the exponent e of the factor's scale 10^e
SCALE_ADAPTERS(factor) ==
    CASE factor = "attractive" -> -3
      [] factor = "alignment" -> -2
      [] factor = "avoid" -> -2

\* 10 ** e for e <= 0
RECURSIVE TenTo(_)
TenTo(e) == IF e = 0 THEN Rat(1, 1) ELSE RatDivInt(TenTo(e + 1), 10)

\* mutant of DEFAULT_PARAMS: the defaults of the app.py page
DEFAULT_PARAMS_app ==
    [attractive |-> Rat(5, 1), alignment |-> Rat(5, 1), avoid |-> Rat(5, 1),
     visual_range |-> 75]

\* DEFAULT_PARAMS (not scaled)
DEFAULT_PARAMS ==
    [attractive |-> Rat(5, 1), alignment |-> Rat(50, 1), avoid |-> Rat(50, 1),
     visual_range |-> 75]

ExperimentNames ==
    {"OFAT Attractive", "OFAT Alignment", "OFAT Avoid",
     "Pairwise Attractive vs Alignment", "Pairwise Attractive vs Avoid",
     "Pairwise Alignment vs Avoid", "Full Factor Interaction"}

EXP_OPTIONS_DICT(name) ==
    CASE name = "OFAT Attractive" -> [type |-> "ofat", factors |-> <<"attractive">>]
      [] name = "OFAT Alignment" -> [type |-> "ofat", factors |-> <<"alignment">>]
      [] name = "OFAT Avoid" -> [type |-> "ofat", factors |-> <<"avoid">>]
      [] name = "Pairwise Attractive vs Alignment" ->
            [type |-> "pairwise", factors |-> <<"attractive", "alignment">>]
      [] name = "Pairwise Attractive vs Avoid" ->
            [type |-> "pairwise", factors |-> <<"attractive", "avoid">>]
      [] name = "Pairwise Alignment vs Avoid" ->
            [type |-> "pairwise", factors |-> <<"alignment", "avoid">>]
      [] name = "Full Factor Interaction" ->
            [type |-> "full", factors |-> <<"attractive", "alignment", "avoid">>]

\* build_js_config(params, duration, num_boids)
build_js_config(params, duration, num_boids) ==
    [attractiveFactor |-> RatMul(params.attractive, TenTo(SCALE_ADAPTERS("attractive"))),
     alignmentFactor |-> RatMul(params.alignment, TenTo(SCALE_ADAPTERS("alignment"))),
     avoidFactor |-> RatMul(params.avoid, TenTo(SCALE_ADAPTERS("avoid"))),
     visualRange |-> params.visual_range,
     numBoids |-> num_boids,
     width |-> WIDTH,
     height |-> HEIGHT,
     steps |-> duration,
     verbose |-> VERBOSE]

\* mutant of linspace0: the end point is left out (endpoint=False)
linspace0_open(stop, num) ==
    [i \in 1..num |-> RatDivInt(RatMulInt(stop, i - 1), num)]

\* np.linspace(0, stop, num): num evenly spaced values from 0 to stop
linspace0(stop, num) ==
    [i \in 1..num |-> IF num = 1 THEN Rat(0, 1)
                      ELSE RatDivInt(RatMulInt(stop, i - 1), num - 1)]

\* lines 104-106: the swept values handed to params[factor]
sweep_stops(factor, range_val, granularity) ==
    LET scale_adapter == SCALE_ADAPTERS(factor)
        sweep_max == RatMulInt(TenTo(scale_adapter), range_val)
    IN  linspace0(sweep_max, granularity)

\* lines 102-119: the params dict of each pass of the loop, for the widget
\* values w (the pairwise and full branches build none)
run_sweep_params(w) ==
    LET exp_config == EXP_OPTIONS_DICT(w.exp_type_select)
        factor == exp_config.factors[1]
        stops == sweep_stops(factor, w.range_slider, w.granularity_slider)
    IN  IF exp_config.type = "ofat"
        THEN [i \in 1..Len(stops) |-> [DEFAULT_PARAMS EXCEPT ![factor] = stops[i]]]
        ELSE <<>>

\* lines 99-121: the configs run_sweep stores for the widget values w
run_sweep_configs(w) ==
    LET params == run_sweep_params(w)
    IN  [i \in 1..Len(params) |->
            build_js_config(params[i], w.run_duration_slider, w.num_boids_slider)]

\* the key of a run configuration that holds a factor
FactorOf(config, factor) ==
    CASE factor = "attractive" -> config.attractiveFactor
      [] factor = "alignment" -> config.alignmentFactor
      [] factor = "avoid" -> config.avoidFactor

\* slider positions tried with granularity g: <<range, duration, number of boids>>
SliderChoices(g) ==
    IF g = 1 THEN {<<1, 1, 100>>, <<100, 100, 1000>>} ELSE {<<100, 100, 1000>>}

\* granularities tried with experiment e
GranularityChoices(e) ==
    IF EXP_OPTIONS_DICT(e).type = "ofat" THEN 1..MaxGranularity ELSE {1}

WidgetChoices ==
    { [exp_type_select |-> egc[1], granularity_slider |-> egc[2],
       range_slider |-> egc[3][1], run_duration_slider |-> egc[3][2],
       num_boids_slider |-> egc[3][3]] :
        egc \in UNION {{<<e, g, c>> : c \in SliderChoices(g)} :
                        <<e, g>> \in UNION {{<<e, g>> : g \in GranularityChoices(e)} :
                                             e \in ExperimentNames}} }

\* the widgets as first rendered: first option, slider minima (lines 206-211)
DefaultWidgets ==
    [exp_type_select |-> "OFAT Attractive", granularity_slider |-> 1,
     range_slider |-> 1, run_duration_slider |-> 1, num_boids_slider |-> 100]

-----------------------------------------------------------------------------
(* sweeps.py: orchestration, lines 70, 89-121, 215-238 *)

SweepStates == {"waiting", "running", "completed"}

NoResults == [t |-> "none", v |-> <<>>]
ResultList(seq) == [t |-> "list", v |-> seq]

\* what the runner produces for a batch: one result object per configuration
ResultsFor(configs) == ResultList([i \in 1..Len(configs) |-> [ran |-> configs[i]]])

\* the values the component can send back for the batch it was given:
\* null, an empty list, or the results of that batch
RunnerAnswers(configs) == {NoResults, ResultList(<<>>), ResultsFor(configs)}

NoRender == [mounted |-> FALSE, configs |-> <<>>, returned |-> NoResults]

\* line 91: the state run_sweep sets
run_sweep_state == "running"

\* mutant of state_after_render: no results sends the sweep back to waiting
state_after_render_revert(state, results) ==
    IF results.t # "none" THEN "completed" ELSE "waiting"

\* lines 235-238: the state after the component returned results
state_after_render(state, results) ==
    IF results.t # "none" THEN "completed" ELSE state

\* lines 235-236: the stored results after the component returned results
results_after_render(stored, results) ==
    IF results.t # "none" THEN results ELSE stored

\* the user moves a slider or picks an experiment (lines 205-211): the keyed
\* widget takes the new value and the script reruns
SetWidgets(w) ==
    /\ ~sweep_pending
    /\ w # widgets
    /\ widgets' = w
    /\ sweep_pending' = TRUE
    /\ UNCHANGED <<sweep_state, sweep_configs, sweep_results, component_value,
                   last_render, sweep_params, sweep_inputs>>
    /\ UNCHANGED <<decodeVars, phaseVars, epsVars, appVars>>

\* "Run Sweep" on_click (line 215): run_sweep() reads the widgets, then the
\* script reruns
RunSweepClick ==
    /\ ~sweep_pending
    /\ sweep_state' = run_sweep_state
    /\ sweep_configs' = run_sweep_configs(widgets)
    /\ sweep_params' = run_sweep_params(widgets)
    /\ sweep_inputs' = widgets
    /\ sweep_pending' = TRUE
    /\ UNCHANGED <<sweep_results, widgets, component_value, last_render>>
    /\ UNCHANGED <<decodeVars, phaseVars, epsVars, appVars>>

\* the runner in the component's frame finishes and sets the component value,
\* which asks for a rerun
RunnerSetsValue(v) ==
    /\ ~sweep_pending
    /\ last_render.mounted
    /\ v \in RunnerAnswers(last_render.configs)
    /\ component_value' = v
    /\ sweep_pending' = TRUE
    /\ UNCHANGED <<sweep_state, sweep_configs, sweep_results, widgets, last_render,
                   sweep_params, sweep_inputs>>
    /\ UNCHANGED <<decodeVars, phaseVars, epsVars, appVars>>

\* one run of the script body, lines 185-238.  A component that a run does not
\* render is unmounted and its value is dropped.
SweepScript ==
    LET configs == sweep_configs
        rendered == sweep_state = "running" /\ configs # <<>>
        results == component_value
    IN  /\ sweep_pending' = FALSE
        /\ IF rendered
           THEN /\ last_render' = [mounted |-> TRUE, configs |-> configs,
                                   returned |-> results]
                /\ sweep_results' = results_after_render(sweep_results, results)
                /\ sweep_state' = state_after_render(sweep_state, results)
                /\ UNCHANGED component_value
           ELSE /\ last_render' = NoRender
                /\ component_value' = NoResults
                /\ UNCHANGED <<sweep_results, sweep_state>>
        /\ UNCHANGED <<sweep_configs, widgets, sweep_params, sweep_inputs>>
        /\ UNCHANGED <<decodeVars, phaseVars, epsVars, appVars>>

\* line 70 and the first render of the page
SweepInit ==
    /\ sweep_state = "waiting"
    /\ sweep_configs = <<>>
    /\ sweep_results = NoResults
    /\ widgets = DefaultWidgets
    /\ component_value = NoResults
    /\ sweep_pending = FALSE
    /\ last_render = NoRender
    /\ sweep_params = <<>>
    /\ sweep_inputs = DefaultWidgets

-----------------------------------------------------------------------------
(* Specifications *)

\* decode_boids_telemetry applied to one frame
Decode ==
    /\ decoded.kind = "pending"
    /\ decoded' = decode_boids_telemetry(telemetry)
    /\ UNCHANGED <<telemetry, phaseVars, epsVars, appVars, sweepVars>>

InitDecode == telemetry \in DecodeFrames /\ decoded = Pending
                 /\ PhaseIdle /\ EpsIdle /\ AppInit /\ SweepInit
NextDecode == Decode
SpecDecode == InitDecode /\ [][NextDecode]_vars

\* getShoalPhase applied to one pair of order parameters
Classify ==
    /\ phase_out = "none"
    /\ phase_out' = getShoalPhase(phase_in[1], phase_in[2])
    /\ UNCHANGED <<phase_in, decodeVars, epsVars, appVars, sweepVars>>

InitPhase == phase_in \in PhaseValues \X PhaseValues /\ phase_out = "none"
                /\ DecodeIdle /\ EpsIdle /\ AppInit /\ SweepInit
NextPhase == Classify
SpecPhase == InitPhase /\ [][NextPhase]_vars

\* calculate_eps applied to one population size
Radius ==
    /\ eps_out = EpsPending
    /\ eps_out' = calculate_eps(eps_n)
    /\ UNCHANGED <<eps_n, decodeVars, phaseVars, appVars, sweepVars>>

InitEps == eps_n \in PopulationSizes /\ eps_out = EpsPending
              /\ DecodeIdle /\ PhaseIdle /\ AppInit /\ SweepInit
NextEps == Radius
SpecEps == InitEps /\ [][NextEps]_vars

\* the app.py page
InitApp == AppInit /\ DecodeIdle /\ PhaseIdle /\ EpsIdle /\ SweepInit
NextApp ==
    \/ \E cmd \in Commands : Press(cmd)
    \/ \E inp \in AppInputs : ScriptRun(inp)
SpecApp == InitApp /\ [][NextApp]_vars

\* the sweeps.py page
InitSweep == SweepInit /\ DecodeIdle /\ PhaseIdle /\ EpsIdle /\ AppInit
NextSweep ==
    \/ \E w \in WidgetChoices : SetWidgets(w)
    \/ RunSweepClick
    \/ \E v \in RunnerAnswers(last_render.configs) : RunnerSetsValue(v)
    \/ SweepScript
SpecSweep == InitSweep /\ [][NextSweep]_vars

\* the default specification is the sweeps.py page
Init == InitSweep
Next == NextSweep
Spec == Init /\ [][Next]_vars

\* the latest script run received a telemetry frame
ReceivedFrame == run.ran /\ run.given # NoTick

\* the processing of the received frame failed: its payload could not be
\* decoded, its n disagreed with the decoded count, or its n is degenerate
FrameFailed == ReceivedFrame /\ (run.warning_text # "None" \/ run.n = IntV(0))

\* C15: a script run that received a frame lets no exception escape and leaves
\* the previous-frame record at that frame's (stepCount, tMs); when the frame's
\* processing failed, the stored positions are absent.
C15_FailedFrameContained ==
    ReceivedFrame =>
        /\ run.raised = "None"
        /\ prev_stepCount = run.given.stepCount
        /\ prev_tMs = run.given.tMs
        /\ FrameFailed =>
                /\ boids_positions_px = NoPositions
                /\ boids_positions_norm = NoPositions

-----------------------------------------------------------------------------
(* Claims on the sweep configuration builder (SpecSweep) *)

\* the factor a sweep of the chosen experiment varies
SweptFactor == EXP_OPTIONS_DICT(sweep_inputs.exp_type_select).factors[1]
IsOfatSweep ==
    /\ sweep_state # "waiting"
    /\ EXP_OPTIONS_DICT(sweep_inputs.exp_type_select).type = "ofat"

\* the i-th point of the unscaled grid, in slider units from 0 to range
UnscaledGridValue(i) ==
    IF sweep_inputs.granularity_slider = 1 THEN Rat(0, 1)
    ELSE Rat((i - 1) * sweep_inputs.range_slider, sweep_inputs.granularity_slider - 1)

\* the documented scale of each factor: 10^-3, 10^-2, 10^-2
DocumentedScale(factor) ==
    IF factor = "attractive" THEN Rat(1, 1000) ELSE Rat(1, 100)

\* C1: in every configuration of an OFAT batch the swept factor equals its
\* unscaled grid value multiplied once by the factor's scale.
C1_SweptFactorScaledOnce ==
    IsOfatSweep =>
        \A i \in 1..Len(sweep_configs) :
            FactorOf(sweep_configs[i], SweptFactor)
                = RatMul(UnscaledGridValue(i), DocumentedScale(SweptFactor))

\* C2: when the component returned None or an empty sequence for the rendered
\* batch, the sweep is not completed.
C2_NoResultsNoCompletion ==
    (last_render.mounted /\ last_render.returned \in {NoResults, ResultList(<<>>)})
        => sweep_state # "completed"

\* C11: after every render that leaves the sweep running, for each experiment
\* type of the selectbox, a non-empty batch is stored and that batch was handed
\* to the runner component on the render.
C11_RunningSubmitsBatch ==
    (sweep_state = "running" /\ ~sweep_pending) =>
        /\ sweep_configs # <<>>
        /\ last_render.mounted
        /\ last_render.configs = sweep_configs

\* the i-th value run_sweep gave the swept parameter, in unscaled (slider)
\* units: the value divided by the factor's scale 10^-3 or 10^-2
SweptValue(i) ==
    RatMulInt(sweep_params[i][SweptFactor],
              IF SweptFactor = "attractive" THEN 1000 ELSE 100)

\* the swept values are i * step for one positive step: evenly spaced,
\* ascending, starting at 0
EvenlySpacedFromZero ==
    LET step == IF Len(sweep_params) >= 2 THEN SweptValue(2) ELSE Rat(0, 1)
    IN  /\ SweptValue(1) = Rat(0, 1)
        /\ Len(sweep_params) >= 2 => step.num > 0 /\ step.den > 0
        /\ \A i \in 1..Len(sweep_params) : SweptValue(i) = RatMulInt(step, i - 1)

BaselineUI(factor) ==
    IF factor = "attractive" THEN Rat(5, 1) ELSE Rat(50, 1)

\* the fields of a run configuration that a sweep of SweptFactor leaves alone
FixedFields(config) ==
    [factors |-> [f \in Factors \ {SweptFactor} |-> FactorOf(config, f)],
     visualRange |-> config.visualRange, width |-> config.width,
     height |-> config.height, numBoids |-> config.numBoids, steps |-> config.steps]

\* C13: in every configuration of an OFAT batch the two factors not swept are
\* their baseline UI value times their own scale, visualRange is 75, width and
\* height are the fixed box, numBoids and steps are the selected population and
\* duration, and these fields are the same in all configurations of the batch.
C13_UnsweptFieldsFixed ==
    IsOfatSweep =>
        \A i \in 1..Len(sweep_configs) :
            /\ \A f \in Factors \ {SweptFactor} :
                    FactorOf(sweep_configs[i], f)
                        = RatMul(BaselineUI(f), DocumentedScale(f))
            /\ sweep_configs[i].visualRange = 75
            /\ sweep_configs[i].width = WIDTH
            /\ sweep_configs[i].height = HEIGHT
            /\ sweep_configs[i].numBoids = sweep_inputs.num_boids_slider
            /\ sweep_configs[i].steps = sweep_inputs.run_duration_slider
            /\ FixedFields(sweep_configs[i]) = FixedFields(sweep_configs[1])

\* an alignment sweep of several points for 1000 boids and 100 steps: the
\* swept factor differs between the first and the last configuration
C13_Witness ==
    /\ IsOfatSweep
    /\ SweptFactor = "alignment"
    /\ Len(sweep_configs) >= 2
    /\ sweep_configs[1].numBoids = 1000
    /\ sweep_configs[1].steps = 100
    /\ sweep_configs[1].attractiveFactor = Rat(5, 1000)
    /\ sweep_configs[1].avoidFactor = Rat(50, 100)
    /\ sweep_configs[1].alignmentFactor
            # sweep_configs[Len(sweep_configs)].alignmentFactor

\* C16: whenever the sweep is completed with results stored, the stored results
\* are the runner's response to the batch now stored in sweep_configs: as many
\* results as configurations, the i-th result being that of the i-th
\* configuration; results of an earlier batch are never stored for a later one.
C16_ResultsOfStoredBatch ==
    (sweep_state = "completed" /\ sweep_results.v # <<>>) =>
        /\ Len(sweep_results.v) = Len(sweep_configs)
        /\ \A i \in 1..Len(sweep_configs) : sweep_results.v[i].ran = sweep_configs[i]

-----------------------------------------------------------------------------
(* Claims on calculate_eps (SpecEps) *)

\* C14: for every population size n <= 0 calculate_eps fails with an error and
\* returns nothing (no NaN, no infinity, no number); for every n > 0 it returns
\* a positive finite radius.
C14_EpsFailsOrPositive ==
    eps_out # EpsPending =>
        /\ eps_n <= 0 => eps_out.kind = "ZeroDivisionError"
        /\ eps_n > 0 =>
                /\ eps_out.kind = "value"
                /\ eps_out.sq_pi.num > 0
                /\ eps_out.sq_pi.den > 0

-----------------------------------------------------------------------------
(* Claims on decode_boids_telemetry (SpecDecode) *)

Called == decoded.kind # "pending"

\* the frame is u16xy and carries a non-empty string payload
HasPayload ==
    telemetry.format = "u16xy" /\ telemetry.data.t = "str" /\ telemetry.data.s # <<>>

PayloadBytes == b64decode(telemetry.data.s)

\* the payload holds this many whole (x, y) pairs and decoding reached them
PairsDecoded(k) ==
    /\ HasPayload
    /\ IntConvertible(telemetry.w) /\ IntConvertible(telemetry.h)
    /\ PayloadBytes.ok
    /\ Len(PayloadBytes.bytes) = 4 * k

\* the payload decodes to an odd number of 16-bit values
OddU16Payload ==
    /\ HasPayload
    /\ PayloadBytes.ok
    /\ Len(PayloadBytes.bytes) % 4 = 2

ReportedCheckedN == telemetry.n.t = "int" /\ telemetry.n.v >= 0

\* C3: a reported n (a non-negative int) that differs from the number of pairs
\* decoded gives absent positions and a warning naming both counts.
C3_MismatchGivesWarning ==
    \A k \in 0..(MaxBoids + 1) :
        (Called /\ PairsDecoded(k) /\ ReportedCheckedN /\ telemetry.n.v # k)
            => /\ decoded.kind = "return"
               /\ decoded.positions_px = NoPositions
               /\ decoded.positions_norm = NoPositions
               /\ decoded.warning.present
               /\ decoded.warning.reported_n = telemetry.n.v
               /\ decoded.warning.decoded_n = k

C3_Witness ==
    /\ Called /\ PairsDecoded(2) /\ telemetry.n = IntV(1)
    /\ decoded.warning.present

ReturnedPositions ==
    /\ decoded.kind = "return"
    /\ decoded.positions_px.t = "array"
    /\ decoded.positions_norm.t = "array"
    /\ ~decoded.warning.present

\* C4 as claimed: positions returned without a warning have the length n of
\* the frame, also when n is missing, negative or not an integer.
C4_LengthEqualsN_AnyN ==
    ReturnedPositions =>
        /\ telemetry.n.t \in {"int", "float"}
        /\ Len(decoded.positions_px.v) = telemetry.n.v
        /\ Len(decoded.positions_norm.v) = telemetry.n.v

\* C4 amended: positions returned without a warning have equal lengths, and
\* that length is n whenever n is a non-negative int.
C4_LengthEqualsCheckedN ==
    ReturnedPositions =>
        /\ Len(decoded.positions_px.v) = Len(decoded.positions_norm.v)
        /\ ReportedCheckedN => Len(decoded.positions_px.v) = telemetry.n.v

C4_Witness ==
    /\ ReturnedPositions /\ telemetry.n = IntV(2)
    /\ Len(decoded.positions_px.v) = 2

\* C5: a payload of an odd number of 16-bit values makes the call raise (the
\* even-count error when w and h convert) and return no positions, whatever n;
\* a result carrying an integrity warning is a returned value, not a raise.
C5_OddCountRaises ==
    /\ (Called /\ OddU16Payload) =>
          /\ decoded.kind = "raise"
          /\ decoded.positions_px = NoPositions
          /\ decoded.positions_norm = NoPositions
          /\ ~decoded.warning.present
          /\ (IntConvertible(telemetry.w) /\ IntConvertible(telemetry.h))
                => decoded.error = "ValueError: u16xy payload must have even count"
    /\ decoded.warning.present => (decoded.kind = "return" /\ decoded.error = "")

C5_Witness ==
    /\ Called /\ OddU16Payload /\ Len(PayloadBytes.bytes) = 6
    /\ telemetry.n = IntV(1)
    /\ decoded.error = "ValueError: u16xy payload must have even count"

\* C6: a frame that is not u16xy, or whose data is missing, not a string or
\* empty, is returned with its format, absent positions and no warning, and
\* nothing is raised, whatever w, h and n are.
C6_NothingToDecode ==
    (/\ Called
     /\ \/ telemetry.format # "u16xy"
        \/ telemetry.data.t \in {"none", "nonstr"}
        \/ telemetry.data = [t |-> "str", s |-> <<>>])
        => /\ decoded.kind = "return"
           /\ decoded.format = telemetry.format
           /\ decoded.positions_px = NoPositions
           /\ decoded.positions_norm = NoPositions
           /\ ~decoded.warning.present

C6_Witness ==
    /\ Called
    /\ telemetry.format = "u16xy" /\ telemetry.data = [t |-> "str", s |-> <<>>]
    /\ telemetry.w = BadV /\ telemetry.n = IntV(1)
    /\ decoded.kind = "return"

-----------------------------------------------------------------------------
(* Claim on getShoalPhase (SpecPhase) *)

\* C7: polar exactly when polarization > 0.65 and rotationOrder < 0.35, milling
\* exactly when polarization < 0.35 and rotationOrder > 0.65, swarm otherwise;
\* an input with a value on a threshold is swarm.
C7_PhaseClassification ==
    LET Op == phase_in[1]
        Or == phase_in[2]
        polar == Op > 65 /\ Or < 35
        milling == Op < 35 /\ Or > 65
    IN  phase_out # "none" =>
          /\ phase_out \in {"polar", "milling", "swarm"}
          /\ (phase_out = "polar") <=> polar
          /\ (phase_out = "milling") <=> milling
          /\ (phase_out = "swarm") <=> (~polar /\ ~milling)
          /\ ~(polar /\ milling)
          /\ (Op \in {35, 65} \/ Or \in {35, 65}) => phase_out = "swarm"

C7_Witness == phase_in = <<65, 35>> /\ phase_out = "swarm"

-----------------------------------------------------------------------------
(* Claims on the app.py script (SpecApp) *)

\* the rate reported for a frame is one of the two "n/a" texts
SpsUnavailable(sps) == sps.kind \in {"n/a", "n/a (warming up)"}

\* C8: the rate of a processed frame is unavailable when no frame was
\* processed before it, when the time delta to the frame processed just before
\* is <= 0 or the step delta is < 0; otherwise it is step delta / time delta *
\* 1000.  A rate is never negative and never a division by zero.
C8_StepsPerSecond ==
    run.processed =>
        LET first == run.before = NoTick
            d_step == run.tick.stepCount.v - run.before.stepCount.v
            d_tms == run.tick.tMs.v - run.before.tMs.v
        IN  /\ IF first \/ d_tms <= 0 \/ d_step < 0
               THEN SpsUnavailable(run.sps)
               ELSE run.sps = [kind |-> "value", v |-> Rat(d_step * 1000, d_tms)]
            /\ run.sps.kind = "value" => (run.sps.v.num >= 0 /\ run.sps.v.den > 0)

C8_Witness ==
    /\ run.processed
    /\ run.before = [stepCount |-> IntV(0), tMs |-> IntV(1)]
    /\ run.tick = [stepCount |-> IntV(2), tMs |-> IntV(2)]
    /\ run.sps = [kind |-> "value", v |-> Rat(2000, 1)]

\* C9: every script run hands the component the command of the button press
\* that triggered it, and None when no press did; the slot holds a command
\* only between a press and the run that follows it.
C9_CommandOneShot ==
    /\ run.ran => run.command = run.cause
    /\ boids_command = (IF rerun_pending THEN pressed ELSE "None")
    /\ rerun_pending => pressed \in Commands

\* a run that followed a press of Start: the command was handed over and the
\* slot is empty again
C9_Witness ==
    /\ run.ran /\ run.cause = "start" /\ run.command = "start"
    /\ ~rerun_pending /\ boids_command = "None"

-----------------------------------------------------------------------------
(* Claim on the sweep orchestrator's states (SpecSweep) *)

\* C10 as claimed: the state changes only waiting -> running and
\* running -> completed.
C10_TwoTransitionsOnly ==
    [][sweep_state' # sweep_state =>
          <<sweep_state, sweep_state'>>
              \in {<<"waiting", "running">>, <<"running", "completed">>}]_vars

\* C10 amended: the state is one of the three, starts at waiting, and changes
\* only waiting -> running, running -> completed and, by a further Run Sweep
\* press, completed -> running.
C10_StateTransitions ==
    /\ sweep_state = "waiting"
    /\ [](sweep_state \in SweepStates)
    /\ [][sweep_state' # sweep_state =>
            <<sweep_state, sweep_state'>>
                \in {<<"waiting", "running">>, <<"running", "completed">>,
                     <<"completed", "running">>}]_vars

\* a sweep was completed and Run Sweep pressed again
C10_Witness ==
    /\ sweep_state = "running"
    /\ sweep_results.t = "list" /\ Len(sweep_results.v) > 0

====
